---- MODULE Spec2Model ----
(***************************************************************************)
(* VisionBones: the premium/subscription edge functions, the Stripe        *)
(* webhook endpoint, and the stats table with its leaderboard views.       *)
(*                                                                         *)
(* Tables are sets of rows.  Timestamps are the integers 1..MaxTime and    *)
(* SQL NULL in a timestamp or id column is NULL (0).  Profile columns that *)
(* no handler reads (username, platform names, last_active) are left out.  *)
(***************************************************************************)
EXTENDS Integers, Sequences, FiniteSets, TLC

\* ---- bounds ----
MaxUsers == 1
MaxTime == 2
MaxDeliveries == 2
MaxStats == 2
MaxWins == 3
MaxAuths == 2
MaxSubscribers == 2

NULL == 0

Times == 1..MaxTime
TelegramIds == 1..MaxUsers
UserIds == 1..MaxUsers
CustomerIds == 1..MaxUsers
\* Stripe subscription ids: one subscription per customer
SubIds == 1..MaxUsers
SocialLinks == {1}

\* statuses Stripe sends on a subscription object (a representative subset;
\* "paused" is a Stripe status the tables' CHECK constraint does not list)
StripeStatuses == {"active", "trialing", "past_due", "paused"}

\* subscriptions_status_valid / check_subscription_status
ValidStatuses ==
    {"active", "canceled", "incomplete", "incomplete_expired", "past_due", "trialing", "unpaid"}

PREMIUM_FEATURES ==
    {"socialLinks", "verifiedBadge", "advancedAnalytics", "profileCustomization",
     "priorityStatUpdates", "exportStats", "customBadges", "profileColors"}

\* feature names a client may ask about: two premium ones and a free one
Features == {"socialLinks", "exportStats", "leaderboard"}

VARIABLES
    users,            \* table users
    subscriptions,    \* table subscriptions
    webhook_events,   \* table webhook_events
    now,              \* the clock (new Date(), NOW())
    stripeCustomers,  \* number of customers created at Stripe
    response,         \* the answer of the last request
    reqs,             \* deliveries to POST /webhook-handlers/stripe in flight
    dispatched,       \* per stripe_event_id: calls made to a handler endpoint
    upserts,          \* per stripe_event_id: subscriptions rows written by handleSubscriptionUpdate
    stats,            \* table stats
    board,            \* the ranks last read from a leaderboard view, of the present rows
    role,             \* the database role of the connection of the last statement on stats
    auths             \* requests to the edge functions that are followed step by step, in flight

premiumVars == <<users, subscriptions, now, stripeCustomers, response>>
webhookVars == <<webhook_events, reqs, dispatched, upserts>>
statsVars == <<stats, board, role>>
vars == <<users, subscriptions, webhook_events, now, stripeCustomers, response,
          reqs, dispatched, upserts, stats, board, role, auths>>

NoResponse == [op |-> "none", arg |-> 0, status |-> 0, ok |-> FALSE]
Resp(op, arg, status, ok) == [op |-> op, arg |-> arg, status |-> status, ok |-> ok]

\* ---- table users ----

\* CHECK (NOT is_premium OR premium_expiry IS NOT NULL OR stripe_subscription_id IS NOT NULL)
check_premium_expiry(u) ==
    ~u.is_premium \/ u.premium_expiry # NULL \/ u.stripe_subscription_id # NULL

\* the row a failed constraint leaves in place, the new row otherwise
UsersUpdate(tbl, old, new) ==
    IF check_premium_expiry(new) THEN (tbl \ {old}) \cup {new} ELSE tbl

UsersUpdateOk(new) == check_premium_expiry(new)

UserById(tbl, id) == {u \in tbl : u.id = id}
UserByTelegramId(tbl, t) == {u \in tbl : u.telegram_id = t}
UserByCustomer(tbl, c) == {u \in tbl : u.stripe_customer_id = c}

\* .single(): data only when exactly one row matches
Single(rows) == Cardinality(rows) = 1
TheRow(rows) == CHOOSE r \in rows : TRUE

NewUserId(tbl) == CHOOSE i \in 1..(Cardinality(tbl) + 1) : \A u \in tbl : u.id # i

\* ---- table subscriptions ----

\* status CHECK, stripe_subscription_id UNIQUE, user_id REFERENCES users(id)
SubscriptionsRowOk(us, tbl, row) ==
    /\ row.status \in ValidStatuses
    /\ UserById(us, row.user_id) # {}
    /\ \A x \in tbl : x.stripe_subscription_id # row.stripe_subscription_id

\* the insert that is always rejected
SubscriptionsInsert_Rejected(us, tbl, row) == tbl

SubscriptionsInsert(us, tbl, row) ==
    IF SubscriptionsRowOk(us, tbl, row) THEN tbl \cup {row} ELSE tbl

SubscriptionsUpdate(us, tbl, old, new) ==
    IF SubscriptionsRowOk(us, tbl \ {old}, new) THEN (tbl \ {old}) \cup {new} ELSE tbl

SubByStripeId(tbl, sid) == {x \in tbl : x.stripe_subscription_id = sid}

\* ---- inputs ----

\* the Stripe subscription objects a request body may carry; a subscription
\* id belongs to one customer
StripeSubscriptions ==
    {s \in [id : SubIds, customer : CustomerIds, status : StripeStatuses,
            current_period_end : Times, canceled_at : {NULL}] : s.id = s.customer}

\* the subscription object of a customer.subscription.deleted event
StripeDeletedSubscriptions ==
    {s \in [id : SubIds, customer : CustomerIds, status : {"canceled"},
            current_period_end : {1}, canceled_at : {1}] : s.id = s.customer}

\* the Stripe invoice objects a request body may carry
StripeInvoices ==
    {i \in [subscription : SubIds \cup {NULL}, customer : CustomerIds] :
        i.subscription \in {NULL, i.customer}}

\* ---- subscription-management ----

Result(us, subs, status, wrote) ==
    [users |-> us, subscriptions |-> subs, status |-> status, wrote |-> wrote]

\* handleSubscriptionUpdate: the tables after the call, the HTTP status, and
\* whether the subscriptions write was applied
handleSubscriptionUpdate(us, subs, s) ==
    LET found == UserByCustomer(us, s.customer) IN
    IF ~Single(found) THEN Result(us, subs, 404, FALSE)
    ELSE
      LET user == TheRow(found)
          existingSubscription == SubByStripeId(subs, s.id)
          subscriptionData ==
              [user_id |-> user.id,
               stripe_subscription_id |-> s.id,
               stripe_customer_id |-> s.customer,
               status |-> s.status,
               current_period_end |-> s.current_period_end,
               canceled_at |-> s.canceled_at]
          subs2 == IF existingSubscription # {}
                   THEN SubscriptionsUpdate(us, subs, TheRow(existingSubscription), subscriptionData)
                   ELSE SubscriptionsInsert(us, subs, subscriptionData)
          isPremium == s.status = "active" \/ s.status = "trialing"
          premiumExpiry == IF isPremium THEN s.current_period_end ELSE NULL
          user2 == [user EXCEPT !.is_premium = isPremium,
                                !.premium_expiry = premiumExpiry,
                                !.stripe_subscription_id = s.id]
      IN Result(UsersUpdate(us, user, user2), subs2, 200, subscriptionData \in subs2)

\* a handleSubscriptionDeleted that cancels every subscriptions row of the customer
handleSubscriptionDeleted_AllRows(us, subs, s, t) ==
    LET found == UserByCustomer(us, s.customer) IN
    IF ~Single(found) THEN Result(us, subs, 404, FALSE)
    ELSE
      LET user == TheRow(found)
          subs2 == {IF x.stripe_customer_id = s.customer
                    THEN [x EXCEPT !.status = "canceled", !.canceled_at = t]
                    ELSE x : x \in subs}
          user2 == [user EXCEPT !.is_premium = FALSE, !.premium_expiry = NULL]
      IN Result(UsersUpdate(us, user, user2), subs2, 200, subs2 # subs)

\* handleSubscriptionDeleted
handleSubscriptionDeleted(us, subs, s, t) ==
    LET found == UserByCustomer(us, s.customer) IN
    IF ~Single(found) THEN Result(us, subs, 404, FALSE)
    ELSE
      LET user == TheRow(found)
          existingSubscription == SubByStripeId(subs, s.id)
          subs2 == IF existingSubscription # {}
                   THEN LET old == TheRow(existingSubscription) IN
                        SubscriptionsUpdate(us, subs, old,
                            [old EXCEPT !.status = "canceled", !.canceled_at = t])
                   ELSE subs
          user2 == [user EXCEPT !.is_premium = FALSE, !.premium_expiry = NULL]
      IN Result(UsersUpdate(us, user, user2), subs2, 200, existingSubscription # {})

\* handlePaymentSucceeded
handlePaymentSucceeded(us, subs, invoice) ==
    IF invoice.subscription = NULL THEN Result(us, subs, 200, FALSE)
    ELSE
      LET found == UserByCustomer(us, invoice.customer) IN
      IF ~Single(found) THEN Result(us, subs, 404, FALSE)
      ELSE
        LET user == TheRow(found)
            user2 == [user EXCEPT !.is_premium = TRUE]
        IN Result(UsersUpdate(us, user, user2), subs, 200, FALSE)

\* a handlePaymentFailed that revokes premium at once
handlePaymentFailed_Revokes(us, subs, invoice) ==
    IF invoice.subscription = NULL THEN Result(us, subs, 200, FALSE)
    ELSE
      LET found == UserByCustomer(us, invoice.customer) IN
      IF ~Single(found) THEN Result(us, subs, 404, FALSE)
      ELSE LET user == TheRow(found) IN
           Result(UsersUpdate(us, user, [user EXCEPT !.is_premium = FALSE, !.premium_expiry = NULL]),
                  subs, 200, FALSE)

\* handlePaymentFailed
handlePaymentFailed(us, subs, invoice) ==
    IF invoice.subscription = NULL THEN Result(us, subs, 200, FALSE)
    ELSE
      LET found == UserByCustomer(us, invoice.customer) IN
      IF ~Single(found) THEN Result(us, subs, 404, FALSE)
      ELSE Result(us, subs, 200, FALSE)

\* ---- premium-management ----

\* isPremiumUser without the expiry comparison
isPremiumUser_NoExpiry(us, userId, t) ==
    LET found == UserById(us, userId) IN
    IF ~Single(found) THEN FALSE ELSE TheRow(found).is_premium

\* the body of isPremiumUser: the isPremium it answers for a user id at time t
isPremiumUser(us, userId, t) ==
    LET found == UserById(us, userId) IN
    IF ~Single(found) THEN FALSE
    ELSE
      LET user == TheRow(found) IN
      IF ~user.is_premium THEN FALSE
      ELSE IF user.premium_expiry # NULL /\ user.premium_expiry < t THEN FALSE
      ELSE TRUE

\* checkPremiumStatus of the shared utilities, for a user id that has a row
checkPremiumStatus(us, userId, t) ==
    LET user == TheRow(UserById(us, userId)) IN
    IF ~user.is_premium THEN FALSE
    ELSE IF user.premium_expiry # NULL /\ user.premium_expiry < t THEN FALSE
    ELSE TRUE

\* getPremiumStatus: the isPremium it answers
getPremiumStatus(us, userId, t) ==
    LET found == UserById(us, userId) IN
    IF ~Single(found) THEN FALSE
    ELSE LET user == TheRow(found) IN
         user.is_premium /\ (user.premium_expiry = NULL \/ user.premium_expiry > t)

\* usePremium: isPremiumActive, for a user id that has a row
usePremium(us, userId, t) ==
    LET userData == TheRow(UserById(us, userId))
        premiumExpiry == userData.premium_expiry
    IN  userData.is_premium /\ (premiumExpiry = NULL \/ premiumExpiry > t)

\* validatePremiumFeature: the hasAccess it answers
validatePremiumFeature(us, userId, feature, t) ==
    IF feature \in PREMIUM_FEATURES THEN isPremiumUser(us, userId, t) ELSE TRUE

\* ---- user-management ----

\* a premium check that reads the flag alone
socialLinksIsPremium_FlagOnly(user, t) == user.is_premium

\* the inline premium check of updateSocialLinks
socialLinksIsPremium(user, t) ==
    user.is_premium /\ (user.premium_expiry = NULL \/ user.premium_expiry > t)

\* the HTTP status updateSocialLinks answers
updateSocialLinksStatus(us, userId, t) ==
    LET found == UserById(us, userId) IN
    IF ~Single(found) THEN 500
    ELSE IF ~socialLinksIsPremium(TheRow(found), t) THEN 403
    ELSE 200

\* ---- webhook-handlers ----

Evt(id, type, sub, customer, status, periodEnd) ==
    [id |-> id, type |-> type,
     object |-> [id |-> sub, subscription |-> sub, customer |-> customer, status |-> status,
                 current_period_end |-> periodEnd, canceled_at |-> NULL]]

\* the events Stripe may deliver; an event id stands for one event
StripeEvents ==
    << Evt(1, "customer.subscription.created", 1, 1, "active", 2),
       Evt(2, "customer.subscription.updated", 1, 1, "past_due", 2),
       Evt(3, "customer.subscription.updated", 1, 1, "paused", 2),
       Evt(4, "customer.subscription.deleted", 1, 1, "canceled", 1),
       Evt(5, "invoice.payment_succeeded", 1, 1, "paid", 1),
       Evt(6, "invoice.payment_failed", 1, 1, "open", 1),
       Evt(7, "charge.succeeded", NULL, 1, "succeeded", 1) >>

EventIds == 1..Len(StripeEvents)
Deliveries == 1..MaxDeliveries
\* the stripe-signature header as handleStripeWebhook finds it: verified, not
\* verified, absent, or with no STRIPE_WEBHOOK_SECRET to verify it against
Signatures == {"valid", "invalid", "missing", "no_secret"}

IdleReq == [pc |-> "idle", event |-> 0, status |-> 0, sig |-> "none"]

UpdateTypes == {"customer.subscription.created", "customer.subscription.updated"}
HandledTypes ==
    UpdateTypes \cup {"customer.subscription.deleted", "invoice.payment_succeeded",
                      "invoice.payment_failed"}

SubscriptionOf(e) ==
    [id |-> e.object.id, customer |-> e.object.customer, status |-> e.object.status,
     current_period_end |-> e.object.current_period_end, canceled_at |-> e.object.canceled_at]

InvoiceOf(e) == [subscription |-> e.object.subscription, customer |-> e.object.customer]

EventById(tbl, id) == {w \in tbl : w.stripe_event_id = id}

\* stripe_event_id UNIQUE: a second row for the id is rejected
WebhookEventsInsert_NoUnique(tbl, row) == tbl \cup {row}

WebhookEventsInsert(tbl, row) ==
    IF EventById(tbl, row.stripe_event_id) = {} THEN tbl \cup {row} ELSE tbl

\* .update(...).eq('stripe_event_id', id)
WebhookEventsUpdate(tbl, id, processed, processedAt, error) ==
    {IF w.stripe_event_id = id
     THEN [w EXCEPT !.processed = IF processed THEN TRUE ELSE w.processed,
                    !.processed_at = processedAt,
                    !.error = IF error THEN TRUE ELSE w.error]
     ELSE w : w \in tbl}

\* the switch of handleStripeWebhook: the handler endpoint's answer
dispatch(us, subs, e, t) ==
    IF e.type \in UpdateTypes THEN handleSubscriptionUpdate(us, subs, SubscriptionOf(e))
    ELSE IF e.type = "customer.subscription.deleted"
         THEN handleSubscriptionDeleted(us, subs, SubscriptionOf(e), t)
    ELSE IF e.type = "invoice.payment_succeeded"
         THEN handlePaymentSucceeded(us, subs, InvoiceOf(e))
    ELSE IF e.type = "invoice.payment_failed"
         THEN handlePaymentFailed(us, subs, InvoiceOf(e))
    ELSE Result(us, subs, 200, FALSE)

\* the request arrives (deliveries are numbered in the order they arrive); a
\* missing or invalid signature is answered 400
Receive_NoVerify(r, id, sig) ==
    /\ reqs[r].pc = "idle"
    /\ \A q \in Deliveries : q < r => reqs[q].pc # "idle"
    /\ reqs' = [reqs EXCEPT ![r] = [pc |-> "lookup", event |-> id, status |-> 0, sig |-> sig]]
    /\ UNCHANGED <<webhook_events, dispatched, upserts, premiumVars>>

Receive(r, id, sig) ==
    /\ reqs[r].pc = "idle"
    /\ \A q \in Deliveries : q < r => reqs[q].pc # "idle"
    /\ reqs' = [reqs EXCEPT ![r] =
                  IF sig = "valid"
                  THEN [pc |-> "lookup", event |-> id, status |-> 0, sig |-> sig]
                  ELSE [pc |-> "done", event |-> id, status |-> 400, sig |-> sig]]
    /\ UNCHANGED <<webhook_events, dispatched, upserts, premiumVars>>

\* the lookup that never finds the row
Lookup_FindsNothing(r) ==
    /\ reqs[r].pc = "lookup"
    /\ reqs' = [reqs EXCEPT ![r].pc = "insert"]
    /\ UNCHANGED <<webhook_events, dispatched, upserts, premiumVars>>

\* existingEvent: answered 200 without more when the event id has a row
Lookup(r) ==
    /\ reqs[r].pc = "lookup"
    /\ LET existingEvent == EventById(webhook_events, reqs[r].event) IN
       reqs' = [reqs EXCEPT ![r] =
                  IF existingEvent # {}
                  THEN [@ EXCEPT !.pc = "done", !.status = 200]
                  ELSE [@ EXCEPT !.pc = "insert"]]
    /\ UNCHANGED <<webhook_events, dispatched, upserts, premiumVars>>

\* the webhook_events insert; its result is not read
LogEvent(r) ==
    /\ reqs[r].pc = "insert"
    /\ webhook_events' = WebhookEventsInsert(webhook_events,
            [stripe_event_id |-> reqs[r].event,
             event_type |-> StripeEvents[reqs[r].event].type,
             processed |-> FALSE, processed_at |-> NULL, error |-> FALSE])
    /\ reqs' = [reqs EXCEPT ![r].pc = "dispatch"]
    /\ UNCHANGED <<dispatched, upserts, premiumVars>>

\* the switch on event.type; a handler answer that is not ok throws
Dispatch(r) ==
    /\ reqs[r].pc = "dispatch"
    /\ LET e == StripeEvents[reqs[r].event]
           res == dispatch(users, subscriptions, e, now)
       IN /\ users' = res.users
          /\ subscriptions' = res.subscriptions
          /\ dispatched' = [dispatched EXCEPT ![e.id] =
                              IF e.type \in HandledTypes THEN @ + 1 ELSE @]
          /\ upserts' = [upserts EXCEPT ![e.id] =
                              IF e.type \in UpdateTypes /\ res.wrote THEN @ + 1 ELSE @]
          /\ reqs' = [reqs EXCEPT ![r].pc = IF res.status = 200 THEN "mark" ELSE "error"]
    /\ UNCHANGED <<webhook_events, now, stripeCustomers, response>>

\* mark the event processed, answer 200
MarkProcessed(r) ==
    /\ reqs[r].pc = "mark"
    /\ webhook_events' = WebhookEventsUpdate(webhook_events, reqs[r].event, TRUE, now, FALSE)
    /\ reqs' = [reqs EXCEPT ![r] = [@ EXCEPT !.pc = "done", !.status = 200]]
    /\ UNCHANGED <<dispatched, upserts, premiumVars>>

\* the catch block: record the error, answer 500
LogError(r) ==
    /\ reqs[r].pc = "error"
    /\ webhook_events' = WebhookEventsUpdate(webhook_events, reqs[r].event, FALSE, now, TRUE)
    /\ reqs' = [reqs EXCEPT ![r] = [@ EXCEPT !.pc = "done", !.status = 500]]
    /\ UNCHANGED <<dispatched, upserts, premiumVars>>

\* POST /webhook-handlers/log-event: a rejected insert throws (500)
PostLogEvent(eventId, eventType) ==
    LET tbl == WebhookEventsInsert(webhook_events,
                   [stripe_event_id |-> eventId, event_type |-> eventType,
                    processed |-> FALSE, processed_at |-> NULL, error |-> FALSE])
    IN /\ webhook_events' = tbl
       /\ response' = IF tbl # webhook_events
                      THEN Resp("logWebhookEvent", eventId, 200, TRUE)
                      ELSE Resp("logWebhookEvent", eventId, 500, FALSE)
       /\ UNCHANGED <<reqs, dispatched, upserts, users, subscriptions, now, stripeCustomers>>

\* POST /webhook-handlers/mark-processed
PostMarkProcessed(eventId) ==
    /\ webhook_events' = WebhookEventsUpdate(webhook_events, eventId, TRUE, now, FALSE)
    /\ response' = Resp("markEventProcessed", eventId, 200, TRUE)
    /\ UNCHANGED <<reqs, dispatched, upserts, users, subscriptions, now, stripeCustomers>>

\* POST /webhook-handlers/log-error
PostLogError(eventId) ==
    /\ webhook_events' = WebhookEventsUpdate(webhook_events, eventId, FALSE, now, TRUE)
    /\ response' = Resp("logWebhookError", eventId, 200, TRUE)
    /\ UNCHANGED <<reqs, dispatched, upserts, users, subscriptions, now, stripeCustomers>>

\* no other delivery is being handled
Quiet(r) == \A q \in Deliveries \ {r} : reqs[q].pc \in {"idle", "done"}

\* ---- table stats ----

\* two of the default platforms the migration inserts (all are active)
Platforms == {1, 2}

VerificationStatuses == {"pending", "verified", "disputed"}

\* a column left out of the column list
OMIT == 0 - 1

\* wins and losses of the rows the leaderboards rank
StatCounts == {0, 1, 2}

\* wins and losses for the generated columns: small counts, a negative one,
\* and counts whose quotient needs rounding (7/10, 1/32, 31/32)
WinRateCounts == (0 - 1)..MaxWins \cup {7, 31}

\* a DECIMAL(5,4) value is held as a number of ten-thousandths

\* ROUND(n / d, 4) that drops the digits after the fourth
Round4_Truncated(n, d) == (10000 * n) \div d

\* ROUND(n / d, 4) on numeric, n >= 0 and d > 0: half rounds away from zero
Round4(n, d) == (20000 * n + d) \div (2 * d)

\* win_rate GENERATED ALWAYS AS (CASE WHEN wins + losses = 0 THEN 0 ELSE ROUND(...) END)
WinRate(wins, losses) ==
    IF wins + losses = 0 THEN 0 ELSE Round4(wins, wins + losses)

\* games_played GENERATED ALWAYS AS (wins + losses)
GamesPlayed(wins, losses) == wins + losses

\* a number for the pair (user, platform)
PairId(userId, platformId) == (userId - 1) * Cardinality(Platforms) + platformId

\* uuid_generate_v4(): an id no other row has
NewStatsId(tbl, userId, platformId) ==
    LET used == {x.id : x \in tbl}
        free == (1..(Cardinality(tbl) + 1)) \ used
    IN  IF PairId(userId, platformId) \notin used
        THEN PairId(userId, platformId)
        ELSE CHOOSE i \in free : \A j \in free : i <= j

StatsById(tbl, id) == {x \in tbl : x.id = id}

\* a generated column takes no value from the statement (a mutation)
GeneratedColumnsOk_Settable(payload) == TRUE

\* a generated column takes no value from the statement
GeneratedColumnsOk(payload) == payload.win_rate = OMIT /\ payload.games_played = OMIT

\* the constraints of stats without UNIQUE(user_id, platform_id)
StatsRowOk_NoUnique(us, tbl, id, payload) ==
    /\ payload.wins >= 0 /\ payload.losses >= 0
    /\ payload.verification_status \in VerificationStatuses
    /\ UserById(us, payload.user_id) # {}
    /\ payload.platform_id \in Platforms
    /\ \A x \in tbl : x.id # id

\* CHECK (wins >= 0), CHECK (losses >= 0), the verification_status CHECK,
\* the foreign keys, UNIQUE(user_id, platform_id), the primary key
StatsRowOk(us, tbl, id, payload) ==
    /\ payload.wins >= 0 /\ payload.losses >= 0
    /\ payload.verification_status \in VerificationStatuses
    /\ UserById(us, payload.user_id) # {}
    /\ payload.platform_id \in Platforms
    /\ \A x \in tbl : ~(x.user_id = payload.user_id /\ x.platform_id = payload.platform_id)
    /\ \A x \in tbl : x.id # id

\* the stored row of a statement's values
StatsRow(id, payload) ==
    [id |-> id,
     user_id |-> payload.user_id,
     platform_id |-> payload.platform_id,
     wins |-> payload.wins,
     losses |-> payload.losses,
     games_played |-> IF payload.games_played = OMIT
                      THEN GamesPlayed(payload.wins, payload.losses)
                      ELSE payload.games_played,
     win_rate |-> IF payload.win_rate = OMIT
                  THEN WinRate(payload.wins, payload.losses)
                  ELSE payload.win_rate,
     verification_status |-> payload.verification_status]

\* INSERT INTO stats: the table after it (unchanged when rejected)
StatsInsert(us, tbl, payload) ==
    LET id == NewStatsId(tbl, payload.user_id, payload.platform_id) IN
    IF GeneratedColumnsOk(payload) /\ StatsRowOk(us, tbl, id, payload)
    THEN tbl \cup {StatsRow(id, payload)} ELSE tbl

\* UPDATE stats SET ... WHERE id = old.id
StatsUpdate(us, tbl, old, payload) ==
    IF GeneratedColumnsOk(payload) /\ StatsRowOk(us, tbl \ {old}, old.id, payload)
    THEN (tbl \ {old}) \cup {StatsRow(old.id, payload)} ELSE tbl

\* .upsert(values): INSERT ... ON CONFLICT (id) DO UPDATE; values without an
\* id take a new one
StatsUpsert(us, tbl, id, payload) ==
    IF StatsById(tbl, id) # {}
    THEN StatsUpdate(us, tbl, TheRow(StatsById(tbl, id)), payload)
    ELSE StatsInsert(us, tbl, payload)

\* what useUpsertStats sends as win_rate, as a DECIMAL(5,4) holds it
clientWinRate(wins, losses) ==
    IF wins # 0 /\ losses # 0 THEN Round4(wins, wins + losses) ELSE 0

\* ---- leaderboard views ----

NoBoard == [view |-> 0 - 1, rank |-> [x \in {} |-> 0]]
Overall == 0

\* the view without the verification filter
Listed_AnyStatus(us, tbl) ==
    {x \in tbl : UserById(us, x.user_id) # {} /\ x.games_played > 0}

\* JOIN stats ON u.id = s.user_id WHERE verification_status = 'verified' AND games_played > 0
Listed(us, tbl) ==
    {x \in tbl : /\ UserById(us, x.user_id) # {}
                 /\ x.verification_status = "verified"
                 /\ x.games_played > 0}

\* ... AND p.is_active, PARTITION BY s.platform_id
ListedOn(us, tbl, platformId) == {x \in Listed(us, tbl) : x.platform_id = platformId}

\* ORDER BY win_rate DESC alone
SortsBefore_WinRateOnly(a, b) == a.win_rate > b.win_rate

\* ORDER BY win_rate DESC, wins DESC, games_played DESC: a is sorted before b
SortsBefore(a, b) ==
    \/ a.win_rate > b.win_rate
    \/ a.win_rate = b.win_rate /\ a.wins > b.wins
    \/ a.win_rate = b.win_rate /\ a.wins = b.wins /\ a.games_played > b.games_played

\* ROW_NUMBER() OVER (ORDER BY ...): every numbering of the rows that follows
\* the order; rows the order does not separate are numbered either way
RowNumbers(rows) ==
    LET ids == {x.id : x \in rows} IN
    {f \in [ids -> 1..Cardinality(rows)] :
        /\ \A a, b \in rows : a.id # b.id => f[a.id] # f[b.id]
        /\ \A a, b \in rows : SortsBefore(a, b) => f[a.id] < f[b.id]}

\* ---- requests on stats ----

Payload(u, p, w, l, wr, gp, vs) ==
    [user_id |-> u, platform_id |-> p, wins |-> w, losses |-> l,
     win_rate |-> wr, games_played |-> gp, verification_status |-> vs]

\* ---- row level security on stats ----

\* the database role of a connection; the hooks' client is built with the anon key
Roles == {"anon", "authenticated", "service_role"}
ClientRoles == {"anon", "authenticated"}

\* a policy on stats that admits every role (a mutation)
StatsPolicyOk_Everyone(r) == TRUE

\* "Only service role can modify stats" FOR ALL USING (current_setting('role') = 'service_role')
StatsPolicyOk(r) == r = "service_role"

\* the answer to a statement the policy refuses: 401 without a session, 403 with one
Unauthorized(r) == IF r = "anon" THEN 401 ELSE 403

\* INSERT: the column list is checked first, then the policy, then the constraints
InsertStatus(r, us, tbl, payload) ==
    IF ~GeneratedColumnsOk(payload) THEN 400
    ELSE IF ~StatsPolicyOk(r) THEN Unauthorized(r)
    ELSE IF ~StatsRowOk(us, tbl, NewStatsId(tbl, payload.user_id, payload.platform_id), payload)
    THEN 409
    ELSE 200

\* UPDATE ... WHERE id = old.id: the policy hides the row from the statement,
\* which then updates no row (noRow is the answer to that)
UpdateStatus(r, us, tbl, old, payload, noRow) ==
    IF ~GeneratedColumnsOk(payload) THEN 400
    ELSE IF ~StatsPolicyOk(r) THEN noRow
    ELSE IF ~StatsRowOk(us, tbl \ {old}, old.id, payload) THEN 409
    ELSE 200

\* a statement on stats by a connection of role r: a leaderboard read made
\* before a write is of other contents
StatsWrite(op, arg, r, status, tbl) ==
    /\ stats' = (IF status = 200 THEN tbl ELSE stats)
    /\ response' = Resp(op, arg, status, status = 200)
    /\ role' = r
    /\ board' = IF stats' # stats THEN NoBoard ELSE board

\* INSERT INTO stats (user_id, platform_id, wins, losses [, win_rate, games_played])
InsertStats(r, u, p, w, l, wr) ==
    LET payload == Payload(u, p, w, l, wr, IF wr = OMIT THEN OMIT ELSE w + l, "pending")
        status == InsertStatus(r, users, stats, payload)
        tbl == StatsInsert(users, stats, payload)
    IN  /\ status = 200 => Cardinality(tbl) <= MaxStats
        /\ StatsWrite("insertStats", PairId(u, p), r, status, tbl)

\* UPDATE stats SET wins = w, losses = l, verification_status = vs WHERE id = id
UpdateStats(r, id, w, l, vs) ==
    /\ StatsById(stats, id) # {}
    /\ LET old == TheRow(StatsById(stats, id))
           payload == Payload(old.user_id, old.platform_id, w, l, OMIT, OMIT, vs)
       IN  StatsWrite("updateStats", id, r,
                      UpdateStatus(r, users, stats, old, payload, 204),
                      StatsUpdate(users, stats, old, payload))

\* useUpsertStats: the caller's row with last_updated, win_rate and
\* games_played of the hook's own making
UseUpsertStats(r, u, p, w, l) ==
    LET payload == Payload(u, p, w, l, clientWinRate(w, l), w + l, "verified") IN
    StatsWrite("useUpsertStats", PairId(u, p), r,
               InsertStatus(r, users, stats, payload),
               StatsUpsert(users, stats, OMIT, payload))

\* useVerifyStats: .update(...).eq('id', statsId).select().single(), 406 when
\* no row comes back
UseVerifyStats(r, id, verificationStatus) ==
    /\ StatsById(stats, id) # {}
    /\ LET old == TheRow(StatsById(stats, id))
           payload == Payload(old.user_id, old.platform_id, old.wins, old.losses,
                              OMIT, OMIT, verificationStatus)
       IN  StatsWrite("useVerifyStats", id, r,
                      UpdateStatus(r, users, stats, old, payload, 406),
                      StatsUpdate(users, stats, old, payload))

\* SELECT ... FROM leaderboard_overall
ReadLeaderboardOverall ==
    /\ \E f \in RowNumbers(Listed(users, stats)) :
          board' = [view |-> Overall, rank |-> f]
    /\ UNCHANGED <<stats, response, role>>

\* SELECT ... FROM leaderboard_by_platform, the rows of one platform
ReadLeaderboardByPlatform(platformId) ==
    /\ \E f \in RowNumbers(ListedOn(users, stats, platformId)) :
          board' = [view |-> platformId, rank |-> f]
    /\ UNCHANGED <<stats, response, role>>

\* ---- requests to the edge functions ----

\* POST /user-management/create-or-update (telegram-auth does the same lookup
\* and insert): the existing row keeps its id, a new row starts non-premium
PostCreateOrUpdate(telegramId) ==
    LET existingUser == UserByTelegramId(users, telegramId) IN
    /\ IF existingUser # {}
       THEN /\ users' = users
            /\ response' = Resp("createOrUpdateUser", TheRow(existingUser).id, 200, TRUE)
       ELSE LET row == [id |-> NewUserId(users),
                        telegram_id |-> telegramId,
                        is_premium |-> FALSE,
                        premium_expiry |-> NULL,
                        stripe_customer_id |-> NULL,
                        stripe_subscription_id |-> NULL,
                        social_links |-> NULL]
            IN /\ users' = users \cup {row}
               /\ response' = Resp("createOrUpdateUser", row.id, 200, TRUE)
    /\ UNCHANGED <<subscriptions, now, stripeCustomers>>

\* POST /checkout/create-session
PostCreateSession(userId) ==
    LET found == UserById(users, userId) IN
    /\ IF ~Single(found)
       THEN /\ response' = Resp("createCheckoutSession", userId, 404, FALSE)
            /\ UNCHANGED <<users, stripeCustomers>>
       ELSE LET user == TheRow(found) IN
            IF user.stripe_customer_id = NULL
            THEN /\ stripeCustomers' = stripeCustomers + 1
                 /\ users' = UsersUpdate(users, user,
                        [user EXCEPT !.stripe_customer_id = stripeCustomers + 1])
                 /\ response' = Resp("createCheckoutSession", userId, 200, TRUE)
            ELSE /\ response' = Resp("createCheckoutSession", userId, 200, TRUE)
                 /\ UNCHANGED <<users, stripeCustomers>>
    /\ UNCHANGED <<subscriptions, now>>

\* ---- telegram-auth and create-or-update, step by step ----

AuthRequests == 1..MaxAuths
AuthEndpoints == {"telegram-auth", "create-or-update"}
IdleAuth == [pc |-> "idle", endpoint |-> "none", telegram_id |-> 0,
             existingUser |-> NULL, status |-> 0, userId |-> NULL]

\* INSERT INTO users: telegram_id is UNIQUE
UsersInsert(tbl, row) ==
    IF UserByTelegramId(tbl, row.telegram_id) = {} THEN tbl \cup {row} ELSE tbl

\* the request arrives and selects the user of the telegram id
AuthLookup(a, endpoint, telegramId) ==
    /\ auths[a].pc = "idle"
    /\ \A b \in AuthRequests : b < a => auths[b].pc # "idle"
    /\ LET existingUser == UserByTelegramId(users, telegramId) IN
       auths' = [auths EXCEPT ![a] =
                   [pc |-> "write", endpoint |-> endpoint, telegram_id |-> telegramId,
                    existingUser |-> IF existingUser # {} THEN TheRow(existingUser).id ELSE NULL,
                    status |-> 0, userId |-> NULL]]
    /\ UNCHANGED <<users, subscriptions, now, stripeCustomers, response>>

\* the request updates the row it found (profile fields) or inserts a new
\* one; an insert that is rejected throws (500)
AuthWrite(a) ==
    /\ auths[a].pc = "write"
    /\ IF auths[a].existingUser # NULL
       THEN /\ users' = users
            /\ auths' = [auths EXCEPT ![a] =
                           [@ EXCEPT !.pc = "done", !.status = 200,
                                      !.userId = auths[a].existingUser]]
       ELSE LET row == [id |-> NewUserId(users),
                        telegram_id |-> auths[a].telegram_id,
                        is_premium |-> FALSE,
                        premium_expiry |-> NULL,
                        stripe_customer_id |-> NULL,
                        stripe_subscription_id |-> NULL,
                        social_links |-> NULL]
                tbl == UsersInsert(users, row)
            IN /\ users' = tbl
               /\ auths' = [auths EXCEPT ![a] =
                              IF row \in tbl /\ row \notin users
                              THEN [@ EXCEPT !.pc = "done", !.status = 200, !.userId = row.id]
                              ELSE [@ EXCEPT !.pc = "done", !.status = 500]]
    /\ response' = Resp(auths[a].endpoint, auths[a].telegram_id, auths'[a].status,
                        auths'[a].status = 200)
    /\ UNCHANGED <<subscriptions, now, stripeCustomers>>

\* ---- checkout/create-session, step by step ----

\* the request arrives and selects the user: 404 without a row
CheckoutSelect(a, userId) ==
    /\ auths[a].pc = "idle"
    /\ \A b \in AuthRequests : b < a => auths[b].pc # "idle"
    /\ LET found == UserById(users, userId) IN
       auths' = [auths EXCEPT ![a] =
                   IF ~Single(found)
                   THEN [pc |-> "done", endpoint |-> "create-session", userId |-> userId,
                         customerId |-> NULL, status |-> 404]
                   ELSE LET customerId == TheRow(found).stripe_customer_id IN
                        [pc |-> IF customerId = NULL THEN "customer" ELSE "session",
                         endpoint |-> "create-session", userId |-> userId,
                         customerId |-> customerId, status |-> 0]]
    /\ UNCHANGED <<users, subscriptions, now, stripeCustomers, response>>

\* stripe.customers.create
CheckoutCreateCustomer(a) ==
    /\ auths[a].pc = "customer"
    /\ stripeCustomers' = stripeCustomers + 1
    /\ auths' = [auths EXCEPT ![a] = [@ EXCEPT !.pc = "update", !.customerId = stripeCustomers + 1]]
    /\ UNCHANGED <<users, subscriptions, now, response>>

\* .update({ stripe_customer_id: customerId }).eq('id', userId)
CheckoutUpdateUser(a) ==
    /\ auths[a].pc = "update"
    /\ users' = {IF u.id = auths[a].userId
                 THEN [u EXCEPT !.stripe_customer_id = auths[a].customerId]
                 ELSE u : u \in users}
    /\ auths' = [auths EXCEPT ![a].pc = "session"]
    /\ UNCHANGED <<subscriptions, now, stripeCustomers, response>>

\* stripe.checkout.sessions.create and the answer
CheckoutSession(a) ==
    /\ auths[a].pc = "session"
    /\ auths' = [auths EXCEPT ![a] = [@ EXCEPT !.pc = "done", !.status = 200]]
    /\ response' = Resp("createCheckoutSession", auths[a].userId, 200, TRUE)
    /\ UNCHANGED <<users, subscriptions, now, stripeCustomers>>

\* ---- handle-subscription-update and handle-subscription-deleted, step by step ----

HandlerEndpoints == {"handle-subscription-update", "handle-subscription-deleted"}

\* the bodies of the two endpoints for one subscription
HandlerBodies(endpoint) ==
    IF endpoint = "handle-subscription-update"
    THEN {s \in StripeSubscriptions : s.status \in {"active", "past_due"} /\ s.current_period_end = MaxTime}
    ELSE StripeDeletedSubscriptions

\* the request arrives and selects the user of the customer: 404 without one
HandlerSelectUser(a, endpoint, s) ==
    /\ auths[a].pc = "idle"
    /\ \A b \in AuthRequests : b < a => auths[b].pc # "idle"
    /\ LET found == UserByCustomer(users, s.customer) IN
       auths' = [auths EXCEPT ![a] =
                   [pc |-> IF Single(found) THEN "select" ELSE "done",
                    endpoint |-> endpoint, subscription |-> s,
                    userId |-> IF Single(found) THEN TheRow(found).id ELSE NULL,
                    existingSubscription |-> FALSE,
                    status |-> IF Single(found) THEN 0 ELSE 404]]
    /\ UNCHANGED <<users, subscriptions, now, stripeCustomers, response>>

\* existingSubscription: the row of the stripe_subscription_id, if any
HandlerSelectSubscription(a) ==
    /\ auths[a].pc = "select"
    /\ auths' = [auths EXCEPT ![a] =
                   [@ EXCEPT !.pc = "subscription",
                             !.existingSubscription =
                                 SubByStripeId(subscriptions, auths[a].subscription.id) # {}]]
    /\ UNCHANGED <<users, subscriptions, now, stripeCustomers, response>>

\* the write on subscriptions; its result is not read
HandlerWriteSubscription(a) ==
    /\ auths[a].pc = "subscription"
    /\ LET s == auths[a].subscription
           current == SubByStripeId(subscriptions, s.id)
           subscriptionData ==
               [user_id |-> auths[a].userId,
                stripe_subscription_id |-> s.id,
                stripe_customer_id |-> s.customer,
                status |-> s.status,
                current_period_end |-> s.current_period_end,
                canceled_at |-> s.canceled_at]
       IN subscriptions' =
            IF auths[a].endpoint = "handle-subscription-update"
            THEN IF auths[a].existingSubscription
                 THEN SubscriptionsUpdate(users, subscriptions, TheRow(current), subscriptionData)
                 ELSE SubscriptionsInsert(users, subscriptions, subscriptionData)
            ELSE IF auths[a].existingSubscription
                 THEN SubscriptionsUpdate(users, subscriptions, TheRow(current),
                          [TheRow(current) EXCEPT !.status = "canceled", !.canceled_at = now])
                 ELSE subscriptions
    /\ auths' = [auths EXCEPT ![a].pc = "user"]
    /\ UNCHANGED <<users, now, stripeCustomers, response>>

\* the write on users and the answer
HandlerWriteUser(a) ==
    /\ auths[a].pc = "user"
    /\ LET s == auths[a].subscription
           user == TheRow(UserById(users, auths[a].userId))
           isPremium == s.status = "active" \/ s.status = "trialing"
           user2 == IF auths[a].endpoint = "handle-subscription-update"
                    THEN [user EXCEPT !.is_premium = isPremium,
                                      !.premium_expiry = IF isPremium THEN s.current_period_end ELSE NULL,
                                      !.stripe_subscription_id = s.id]
                    ELSE [user EXCEPT !.is_premium = FALSE, !.premium_expiry = NULL]
       IN users' = UsersUpdate(users, user, user2)
    /\ auths' = [auths EXCEPT ![a] = [@ EXCEPT !.pc = "done", !.status = 200]]
    /\ response' = Resp(auths[a].endpoint, auths[a].subscription.id, 200, TRUE)
    /\ UNCHANGED <<subscriptions, now, stripeCustomers>>

\* a subscription-management handler called with a request body
ApplyResult(op, arg, r) ==
    /\ users' = r.users
    /\ subscriptions' = r.subscriptions
    /\ response' = Resp(op, arg, r.status, r.status = 200)
    /\ UNCHANGED <<now, stripeCustomers>>

PostHandleSubscriptionUpdate(s) ==
    ApplyResult("handleSubscriptionUpdate", s.id, handleSubscriptionUpdate(users, subscriptions, s))

PostHandleSubscriptionDeleted(s) ==
    ApplyResult("handleSubscriptionDeleted", s.id, handleSubscriptionDeleted(users, subscriptions, s, now))

PostHandlePaymentSucceeded(invoice) ==
    ApplyResult("handlePaymentSucceeded", invoice.customer, handlePaymentSucceeded(users, subscriptions, invoice))

PostHandlePaymentFailed(invoice) ==
    ApplyResult("handlePaymentFailed", invoice.customer, handlePaymentFailed(users, subscriptions, invoice))

\* the bodies of POST /subscription-management/upsert-subscription
UpsertSubscriptionBodies ==
    [userId : UserIds, stripeSubscriptionId : SubIds, stripeCustomerId : CustomerIds,
     status : {"active", "paused"}, currentPeriodEnd : {MaxTime}, canceledAt : {NULL}]

\* upsertSubscription: update the row of the subscription id or insert one;
\* no result of a write is read
upsertSubscription(us, subs, b) ==
    LET existingSubscription == SubByStripeId(subs, b.stripeSubscriptionId)
        subscriptionData ==
            [user_id |-> b.userId,
             stripe_subscription_id |-> b.stripeSubscriptionId,
             stripe_customer_id |-> b.stripeCustomerId,
             status |-> b.status,
             current_period_end |-> b.currentPeriodEnd,
             canceled_at |-> b.canceledAt]
        subs2 == IF existingSubscription # {}
                 THEN SubscriptionsUpdate(us, subs, TheRow(existingSubscription), subscriptionData)
                 ELSE SubscriptionsInsert(us, subs, subscriptionData)
    IN Result(us, subs2, 200, subscriptionData \in subs2)

\* updateSubscriptionStatus: canceled_at is the body's or the current time
updateSubscriptionStatus(us, subs, stripeSubscriptionId, status, canceledAt, t) ==
    LET subscription == SubByStripeId(subs, stripeSubscriptionId) IN
    IF subscription # {}
    THEN LET old == TheRow(subscription)
             new == [old EXCEPT !.status = status,
                                !.canceled_at = IF canceledAt # NULL THEN canceledAt ELSE t]
         IN Result(us, SubscriptionsUpdate(us, subs, old, new), 200, TRUE)
    ELSE Result(us, subs, 200, FALSE)

\* cancelSubscription: 404 without a user or a subscription id, else the
\* subscription is canceled in Stripe (500 when Stripe refuses) and the tables are left
\* to the webhook
cancelSubscriptionStatus(us, userId, stripeOk) ==
    LET found == UserById(us, userId) IN
    IF ~Single(found) \/ TheRow(found).stripe_subscription_id = NULL THEN 404
    ELSE IF stripeOk THEN 200 ELSE 500

\* getUserSubscription: the one row of the user that is not canceled, if any
getUserSubscription(subs, userId) ==
    LET rows == {x \in subs : x.user_id = userId /\ x.status # "canceled"} IN
    IF Single(rows) THEN TheRow(rows).stripe_subscription_id ELSE NULL

PostUpsertSubscription(b) ==
    ApplyResult("upsertSubscription", b.stripeSubscriptionId,
                upsertSubscription(users, subscriptions, b))

PostUpdateSubscriptionStatus(stripeSubscriptionId, status, canceledAt) ==
    ApplyResult("updateSubscriptionStatus", stripeSubscriptionId,
                updateSubscriptionStatus(users, subscriptions, stripeSubscriptionId,
                                         status, canceledAt, now))

PostCancelSubscription(userId, stripeOk) ==
    LET status == cancelSubscriptionStatus(users, userId, stripeOk) IN
    /\ response' = Resp("cancelSubscription", userId, status, status = 200)
    /\ UNCHANGED <<users, subscriptions, now, stripeCustomers>>

GetUserSubscription(userId) ==
    /\ response' = Resp("getUserSubscription", getUserSubscription(subscriptions, userId), 200, TRUE)
    /\ UNCHANGED <<users, subscriptions, now, stripeCustomers>>

\* PUT /user-management/premium-status: no row matched is no error, a
\* rejected update throws (500)
updatePremiumStatus(us, userId, isPremium, premiumExpiry) ==
    LET found == UserById(us, userId) IN
    IF found = {} THEN Result(us, {}, 200, FALSE)
    ELSE LET user == TheRow(found)
             user2 == [user EXCEPT !.is_premium = isPremium, !.premium_expiry = premiumExpiry]
         IN IF UsersUpdateOk(user2)
            THEN Result(UsersUpdate(us, user, user2), {}, 200, TRUE)
            ELSE Result(us, {}, 500, FALSE)

PutPremiumStatus(userId, isPremium, premiumExpiry) ==
    LET r == updatePremiumStatus(users, userId, isPremium, premiumExpiry) IN
    /\ users' = r.users
    /\ response' = Resp("updatePremiumStatus", userId, r.status, r.status = 200)
    /\ UNCHANGED <<subscriptions, now, stripeCustomers>>

\* PUT /user-management/social-links
PutSocialLinks(userId, socialLinks) ==
    LET status == updateSocialLinksStatus(users, userId, now) IN
    /\ users' = IF status = 200
                THEN LET user == TheRow(UserById(users, userId)) IN
                     UsersUpdate(users, user, [user EXCEPT !.social_links = socialLinks])
                ELSE users
    /\ response' = Resp("updateSocialLinks", userId, status, status = 200)
    /\ UNCHANGED <<subscriptions, now, stripeCustomers>>

\* GET /premium-management/is-premium
GetIsPremium(userId) ==
    /\ response' = Resp("isPremiumUser", userId, 200, isPremiumUser(users, userId, now))
    /\ UNCHANGED <<users, subscriptions, now, stripeCustomers>>

\* GET /premium-management/validate-feature
GetValidateFeature(userId, feature) ==
    /\ response' = Resp("validatePremiumFeature", userId, 200,
                        validatePremiumFeature(users, userId, feature, now))
    /\ UNCHANGED <<users, subscriptions, now, stripeCustomers>>

\* a caller of the shared checkPremiumStatus; it throws without a row
CheckPremiumStatus(userId) ==
    /\ response' = IF Single(UserById(users, userId))
                   THEN Resp("checkPremiumStatus", userId, 200, checkPremiumStatus(users, userId, now))
                   ELSE Resp("checkPremiumStatus", userId, 500, FALSE)
    /\ UNCHANGED <<users, subscriptions, now, stripeCustomers>>

\* GET /premium-management/status
GetPremiumStatus(userId) ==
    /\ response' = Resp("getPremiumStatus", userId, 200, getPremiumStatus(users, userId, now))
    /\ UNCHANGED <<users, subscriptions, now, stripeCustomers>>

\* the hook usePremium reads the row; .single() answers 406 without one
UsePremium(userId) ==
    /\ response' = IF Single(UserById(users, userId))
                   THEN Resp("usePremium", userId, 200, usePremium(users, userId, now))
                   ELSE Resp("usePremium", userId, 406, FALSE)
    /\ UNCHANGED <<users, subscriptions, now, stripeCustomers>>

\* the clock advances
Tick ==
    /\ now < MaxTime
    /\ now' = now + 1
    /\ UNCHANGED <<users, subscriptions, stripeCustomers, response>>

Init ==
    /\ users = {}
    /\ subscriptions = {}
    /\ webhook_events = {}
    /\ now = 1
    /\ stripeCustomers = 0
    /\ response = NoResponse
    /\ reqs = [r \in Deliveries |-> IdleReq]
    /\ dispatched = [e \in EventIds |-> 0]
    /\ upserts = [e \in EventIds |-> 0]
    /\ stats = {}
    /\ board = NoBoard
    /\ role = "none"
    /\ auths = [a \in AuthRequests |-> IdleAuth]

\* the subscription handlers and the premium writers, one request at a time
Next ==
    \/ \E t \in TelegramIds : PostCreateOrUpdate(t) /\ UNCHANGED <<webhookVars, statsVars, auths>>
    \/ \E u \in UserIds : PostCreateSession(u) /\ UNCHANGED <<webhookVars, statsVars, auths>>
    \/ \E s \in StripeSubscriptions : PostHandleSubscriptionUpdate(s) /\ UNCHANGED <<webhookVars, statsVars, auths>>
    \/ \E s \in StripeDeletedSubscriptions : PostHandleSubscriptionDeleted(s) /\ UNCHANGED <<webhookVars, statsVars, auths>>
    \/ \E i \in StripeInvoices : PostHandlePaymentSucceeded(i) /\ UNCHANGED <<webhookVars, statsVars, auths>>
    \/ \E i \in StripeInvoices : PostHandlePaymentFailed(i) /\ UNCHANGED <<webhookVars, statsVars, auths>>
    \/ \E u \in UserIds, p \in BOOLEAN, e \in Times \cup {NULL} :
          PutPremiumStatus(u, p, e) /\ UNCHANGED <<webhookVars, statsVars, auths>>
    \/ Tick /\ UNCHANGED <<webhookVars, statsVars, auths>>

Spec == Init /\ [][Next]_vars

\* the premium checks over the rows the premium writers leave
NextPremium ==
    \/ \E t \in TelegramIds : PostCreateOrUpdate(t) /\ UNCHANGED <<webhookVars, statsVars, auths>>
    \/ \E u \in UserIds, p \in BOOLEAN, e \in Times \cup {NULL} :
          PutPremiumStatus(u, p, e) /\ UNCHANGED <<webhookVars, statsVars, auths>>
    \/ \E u \in UserIds, l \in SocialLinks : PutSocialLinks(u, l) /\ UNCHANGED <<webhookVars, statsVars, auths>>
    \/ \E u \in UserIds : GetIsPremium(u) /\ UNCHANGED <<webhookVars, statsVars, auths>>
    \/ \E u \in UserIds, f \in Features : GetValidateFeature(u, f) /\ UNCHANGED <<webhookVars, statsVars, auths>>
    \/ \E u \in UserIds : CheckPremiumStatus(u) /\ UNCHANGED <<webhookVars, statsVars, auths>>
    \/ \E u \in UserIds : GetPremiumStatus(u) /\ UNCHANGED <<webhookVars, statsVars, auths>>
    \/ \E u \in UserIds : UsePremium(u) /\ UNCHANGED <<webhookVars, statsVars, auths>>
    \/ Tick /\ UNCHANGED <<webhookVars, statsVars, auths>>

SpecPremium == Init /\ [][NextPremium]_vars

\* deliveries to POST /webhook-handlers/stripe, handled concurrently
NextWebhook ==
    \/ \E t \in TelegramIds : PostCreateOrUpdate(t) /\ UNCHANGED <<webhookVars, statsVars, auths>>
    \/ \E u \in UserIds : PostCreateSession(u) /\ UNCHANGED <<webhookVars, statsVars, auths>>
    \/ \E r \in Deliveries, id \in EventIds, sig \in Signatures : Receive(r, id, sig) /\ UNCHANGED <<statsVars, auths>>
    \/ \E r \in Deliveries : Lookup(r) /\ UNCHANGED <<statsVars, auths>>
    \/ \E r \in Deliveries : LogEvent(r) /\ UNCHANGED <<statsVars, auths>>
    \/ \E r \in Deliveries : Dispatch(r) /\ UNCHANGED <<statsVars, auths>>
    \/ \E r \in Deliveries : MarkProcessed(r) /\ UNCHANGED <<statsVars, auths>>
    \/ \E r \in Deliveries : LogError(r) /\ UNCHANGED <<statsVars, auths>>

SpecWebhook == Init /\ [][NextWebhook]_vars

\* the same deliveries one after the other
NextWebhookSeq ==
    \/ \E t \in TelegramIds : PostCreateOrUpdate(t) /\ UNCHANGED <<webhookVars, statsVars, auths>>
    \/ \E u \in UserIds : PostCreateSession(u) /\ UNCHANGED <<webhookVars, statsVars, auths>>
    \/ \E r \in Deliveries, id \in EventIds, sig \in Signatures :
          Quiet(r) /\ Receive(r, id, sig) /\ UNCHANGED <<statsVars, auths>>
    \/ \E r \in Deliveries : Lookup(r) /\ UNCHANGED <<statsVars, auths>>
    \/ \E r \in Deliveries : LogEvent(r) /\ UNCHANGED <<statsVars, auths>>
    \/ \E r \in Deliveries : Dispatch(r) /\ UNCHANGED <<statsVars, auths>>
    \/ \E r \in Deliveries : MarkProcessed(r) /\ UNCHANGED <<statsVars, auths>>
    \/ \E r \in Deliveries : LogError(r) /\ UNCHANGED <<statsVars, auths>>

SpecWebhookSeq == Init /\ [][NextWebhookSeq]_vars

\* ---- redelivery ----

\* the events of the redelivery runs: one a handler refuses while the
\* customer is unknown, one without a handler
RetryEvents == {1, 7}

\* a delivery of the event was answered 500 and none was answered 200
AwaitsRetry(id) ==
    /\ \E q \in Deliveries : reqs[q].event = id /\ reqs[q].pc = "done" /\ reqs[q].status = 500
    /\ ~\E q \in Deliveries : reqs[q].event = id /\ reqs[q].pc = "done" /\ reqs[q].status = 200

\* Stripe delivers an event, one delivery at a time: an event answered 500 is
\* delivered again before any other, until it is answered 200
StripeDelivers(r, id) ==
    /\ Quiet(r)
    /\ (\E e \in RetryEvents : AwaitsRetry(e)) => AwaitsRetry(id)
    /\ Receive(r, id, "valid")

NextWebhookRetry ==
    \/ \E t \in TelegramIds : PostCreateOrUpdate(t) /\ UNCHANGED <<webhookVars, statsVars, auths>>
    \/ \E u \in UserIds : PostCreateSession(u) /\ UNCHANGED <<webhookVars, statsVars, auths>>
    \/ \E r \in Deliveries, id \in RetryEvents : StripeDelivers(r, id) /\ UNCHANGED <<statsVars, auths>>
    \/ \E r \in Deliveries : Lookup(r) /\ UNCHANGED <<statsVars, auths>>
    \/ \E r \in Deliveries : LogEvent(r) /\ UNCHANGED <<statsVars, auths>>
    \/ \E r \in Deliveries : Dispatch(r) /\ UNCHANGED <<statsVars, auths>>
    \/ \E r \in Deliveries : MarkProcessed(r) /\ UNCHANGED <<statsVars, auths>>
    \/ \E r \in Deliveries : LogError(r) /\ UNCHANGED <<statsVars, auths>>

\* every request in flight is carried to its answer, the user signs up and
\* starts a checkout (after which the handler can succeed), and Stripe
\* delivers again what was answered 500
FairWebhookRetry ==
    /\ WF_vars(\E t \in TelegramIds : PostCreateOrUpdate(t) /\ UNCHANGED <<webhookVars, statsVars, auths>>)
    /\ WF_vars(\E u \in UserIds : PostCreateSession(u) /\ UNCHANGED <<webhookVars, statsVars, auths>>)
    /\ WF_vars(\E r \in Deliveries, id \in RetryEvents :
                  AwaitsRetry(id) /\ StripeDelivers(r, id) /\ UNCHANGED <<statsVars, auths>>)
    /\ WF_vars(\E r \in Deliveries : Lookup(r) /\ UNCHANGED <<statsVars, auths>>)
    /\ WF_vars(\E r \in Deliveries : LogEvent(r) /\ UNCHANGED <<statsVars, auths>>)
    /\ WF_vars(\E r \in Deliveries : Dispatch(r) /\ UNCHANGED <<statsVars, auths>>)
    /\ WF_vars(\E r \in Deliveries : MarkProcessed(r) /\ UNCHANGED <<statsVars, auths>>)
    /\ WF_vars(\E r \in Deliveries : LogError(r) /\ UNCHANGED <<statsVars, auths>>)

SpecWebhookRetry == Init /\ [][NextWebhookRetry]_vars /\ FairWebhookRetry

\* requests made to the edge functions by others than the webhook
DirectRequest ==
    \/ \E t \in TelegramIds : PostCreateOrUpdate(t)
    \/ \E u \in UserIds : PostCreateSession(u)
    \/ \E b \in UpsertSubscriptionBodies : PostUpsertSubscription(b)
    \/ \E sid \in SubIds : PostUpdateSubscriptionStatus(sid, "canceled", NULL)
    \/ \E u \in UserIds, ok \in BOOLEAN : PostCancelSubscription(u, ok)
    \/ \E u \in UserIds : GetUserSubscription(u)
    \/ \E i \in StripeInvoices : PostHandlePaymentSucceeded(i)
    \/ \E u \in UserIds, p \in BOOLEAN : PutPremiumStatus(u, p, IF p THEN MaxTime ELSE NULL)
    \/ \E u \in UserIds, l \in SocialLinks : PutSocialLinks(u, l)

\* the events delivered next to direct requests: a subscription created and deleted
RequestEvents == {1, 4}

\* deliveries to the webhook one after the other, and direct requests
NextRequests ==
    \/ DirectRequest /\ UNCHANGED <<webhookVars, statsVars, auths>>
    \/ \E r \in Deliveries, id \in RequestEvents, sig \in Signatures :
          Quiet(r) /\ Receive(r, id, sig) /\ UNCHANGED <<statsVars, auths>>
    \/ \E r \in Deliveries : Lookup(r) /\ UNCHANGED <<statsVars, auths>>
    \/ \E r \in Deliveries : LogEvent(r) /\ UNCHANGED <<statsVars, auths>>
    \/ \E r \in Deliveries : Dispatch(r) /\ UNCHANGED <<statsVars, auths>>
    \/ \E r \in Deliveries : MarkProcessed(r) /\ UNCHANGED <<statsVars, auths>>
    \/ \E r \in Deliveries : LogError(r) /\ UNCHANGED <<statsVars, auths>>

SpecRequests == Init /\ [][NextRequests]_vars

\* telegram-auth and create-or-update requests, interleaved, among the
\* writers of the premium fields
NextAuth ==
    \/ \E a \in AuthRequests, e \in AuthEndpoints, t \in TelegramIds :
          AuthLookup(a, e, t) /\ UNCHANGED <<webhookVars, statsVars>>
    \/ \E a \in AuthRequests : AuthWrite(a) /\ UNCHANGED <<webhookVars, statsVars>>
    \/ \E u \in UserIds : PutPremiumStatus(u, TRUE, NULL) /\ UNCHANGED <<webhookVars, statsVars, auths>>
    \/ \E u \in UserIds : PostCreateSession(u) /\ UNCHANGED <<webhookVars, statsVars, auths>>

SpecAuth == Init /\ [][NextAuth]_vars

\* create-session requests that overlap
NextCheckout ==
    \/ \E t \in TelegramIds : PostCreateOrUpdate(t) /\ UNCHANGED <<webhookVars, statsVars, auths>>
    \/ \E a \in AuthRequests, u \in UserIds : CheckoutSelect(a, u) /\ UNCHANGED <<webhookVars, statsVars>>
    \/ \E a \in AuthRequests : CheckoutCreateCustomer(a) /\ UNCHANGED <<webhookVars, statsVars>>
    \/ \E a \in AuthRequests : CheckoutUpdateUser(a) /\ UNCHANGED <<webhookVars, statsVars>>
    \/ \E a \in AuthRequests : CheckoutSession(a) /\ UNCHANGED <<webhookVars, statsVars>>
    \/ \E s \in StripeSubscriptions : PostHandleSubscriptionUpdate(s) /\ UNCHANGED <<webhookVars, statsVars, auths>>

SpecCheckout == Init /\ [][NextCheckout]_vars

\* the two subscription handlers, overlapping
NextHandlers ==
    \/ \E t \in TelegramIds : PostCreateOrUpdate(t) /\ UNCHANGED <<webhookVars, statsVars, auths>>
    \/ \E u \in UserIds : PostCreateSession(u) /\ UNCHANGED <<webhookVars, statsVars, auths>>
    \/ \E a \in AuthRequests, e \in HandlerEndpoints :
          \E s \in HandlerBodies(e) : HandlerSelectUser(a, e, s) /\ UNCHANGED <<webhookVars, statsVars>>
    \/ \E a \in AuthRequests : HandlerSelectSubscription(a) /\ UNCHANGED <<webhookVars, statsVars>>
    \/ \E a \in AuthRequests : HandlerWriteSubscription(a) /\ UNCHANGED <<webhookVars, statsVars>>
    \/ \E a \in AuthRequests : HandlerWriteUser(a) /\ UNCHANGED <<webhookVars, statsVars>>

SpecHandlers == Init /\ [][NextHandlers]_vars

\* ---- several subscribers, a customer holding more than one subscription ----

Subscribers == 1..MaxSubscribers
SubscriberSubIds == 1..(MaxSubscribers + 1)

\* the customer a Stripe subscription belongs to: the first customer holds
\* two subscriptions
CustomerOfSub(sid) == IF sid = 1 THEN 1 ELSE sid - 1

SubscriberSubscriptions ==
    {s \in [id : SubscriberSubIds, customer : Subscribers, status : {"active", "past_due"},
            current_period_end : {MaxTime}, canceled_at : {NULL}] :
        s.customer = CustomerOfSub(s.id)}

SubscriberDeletedSubscriptions ==
    {s \in [id : SubscriberSubIds, customer : Subscribers, status : {"canceled"},
            current_period_end : {1}, canceled_at : {1}] :
        s.customer = CustomerOfSub(s.id)}

SubscriberInvoices ==
    {i \in [subscription : SubscriberSubIds \cup {NULL}, customer : Subscribers] :
        i.subscription # NULL => i.customer = CustomerOfSub(i.subscription)}

\* the subscription handlers called for several users and subscriptions
NextSubscribers ==
    \/ \E t \in Subscribers : PostCreateOrUpdate(t) /\ UNCHANGED <<webhookVars, statsVars, auths>>
    \/ \E u \in Subscribers : PostCreateSession(u) /\ UNCHANGED <<webhookVars, statsVars, auths>>
    \/ \E s \in SubscriberSubscriptions :
          PostHandleSubscriptionUpdate(s) /\ UNCHANGED <<webhookVars, statsVars, auths>>
    \/ \E s \in SubscriberDeletedSubscriptions :
          PostHandleSubscriptionDeleted(s) /\ UNCHANGED <<webhookVars, statsVars, auths>>
    \/ \E i \in SubscriberInvoices :
          PostHandlePaymentFailed(i) /\ UNCHANGED <<webhookVars, statsVars, auths>>

SpecSubscribers == Init /\ [][NextSubscribers]_vars

\* the events delivered next to the log endpoints: one whose handler fails
\* while there is no user, one that no handler takes
LoggedEvents == {1, 7}

\* every writer of webhook_events: concurrent deliveries and the log endpoints
NextWebhookLog ==
    \/ \E r \in Deliveries, id \in LoggedEvents, sig \in Signatures :
          Receive(r, id, sig) /\ UNCHANGED <<statsVars, auths>>
    \/ \E r \in Deliveries : Lookup(r) /\ UNCHANGED <<statsVars, auths>>
    \/ \E r \in Deliveries : LogEvent(r) /\ UNCHANGED <<statsVars, auths>>
    \/ \E r \in Deliveries : Dispatch(r) /\ UNCHANGED <<statsVars, auths>>
    \/ \E r \in Deliveries : MarkProcessed(r) /\ UNCHANGED <<statsVars, auths>>
    \/ \E r \in Deliveries : LogError(r) /\ UNCHANGED <<statsVars, auths>>
    \/ \E id \in LoggedEvents :
          \E type \in {StripeEvents[id].type, "invoice.payment_failed"} :
             PostLogEvent(id, type) /\ UNCHANGED <<statsVars, auths>>
    \/ \E id \in LoggedEvents : PostMarkProcessed(id) /\ UNCHANGED <<statsVars, auths>>
    \/ \E id \in LoggedEvents : PostLogError(id) /\ UNCHANGED <<statsVars, auths>>

SpecWebhookLog == Init /\ [][NextWebhookLog]_vars

othersVars == <<subscriptions, now, stripeCustomers, webhookVars, auths>>

\* the stats table and the leaderboard views
NextStats ==
    \/ \E t \in TelegramIds :
          /\ PostCreateOrUpdate(t)
          /\ board' = IF users' = users THEN board ELSE NoBoard
          /\ UNCHANGED <<webhookVars, stats, role, auths>>
    \/ \E u \in UserIds, p \in Platforms, w, l \in StatCounts :
          InsertStats("service_role", u, p, w, l, OMIT) /\ UNCHANGED <<users, othersVars>>
    \/ \E x \in stats, w, l \in StatCounts, vs \in VerificationStatuses :
          UpdateStats("service_role", x.id, w, l, vs) /\ UNCHANGED <<users, othersVars>>
    \/ ReadLeaderboardOverall /\ UNCHANGED <<users, othersVars>>
    \/ \E p \in Platforms : ReadLeaderboardByPlatform(p) /\ UNCHANGED <<users, othersVars>>

SpecStats == Init /\ [][NextStats]_vars

\* statements on stats by every role, and the hooks
NextStatsWrite ==
    \/ \E t \in TelegramIds :
          PostCreateOrUpdate(t) /\ UNCHANGED <<webhookVars, statsVars, auths>>
    \/ \E r \in {"anon", "service_role"}, u \in UserIds, p \in Platforms,
          w, l \in StatCounts, wr \in {OMIT, 0} :
          InsertStats(r, u, p, w, l, wr) /\ UNCHANGED <<users, othersVars>>
    \/ \E r \in {"anon", "service_role"}, x \in stats, w, l \in StatCounts,
          vs \in VerificationStatuses :
          UpdateStats(r, x.id, w, l, vs) /\ UNCHANGED <<users, othersVars>>
    \/ \E r \in ClientRoles, u \in UserIds, p \in Platforms, w, l \in StatCounts :
          UseUpsertStats(r, u, p, w, l) /\ UNCHANGED <<users, othersVars>>
    \/ \E r \in ClientRoles, x \in stats, v \in {"verified", "disputed"} :
          UseVerifyStats(r, x.id, v) /\ UNCHANGED <<users, othersVars>>

SpecStatsWrite == Init /\ [][NextStatsWrite]_vars

\* the generated columns of a row over a range of wins and losses
NextWinRate ==
    \/ \E t \in TelegramIds :
          PostCreateOrUpdate(t) /\ UNCHANGED <<webhookVars, statsVars, auths>>
    \/ \E r \in Roles, u \in UserIds, w, l \in WinRateCounts :
          InsertStats(r, u, 1, w, l, OMIT) /\ UNCHANGED <<users, othersVars>>
    \/ \E r \in Roles, x \in stats, w, l \in WinRateCounts :
          UpdateStats(r, x.id, w, l, x.verification_status) /\ UNCHANGED <<users, othersVars>>
    \/ \E r \in ClientRoles, u \in UserIds, w, l \in WinRateCounts \cap Nat :
          UseUpsertStats(r, u, 1, w, l) /\ UNCHANGED <<users, othersVars>>

SpecWinRate == Init /\ [][NextWinRate]_vars

\* ---- properties ----

Expired(u) == u.is_premium /\ u.premium_expiry # NULL /\ now > u.premium_expiry

\* C4: for a user whose is_premium is true and whose premium_expiry is set and
\* past, isPremiumUser answers false, validate-feature denies every premium
\* feature and updateSocialLinks answers 403 and writes nothing; the answer
\* comes from the stored row and the clock alone.
C4_ExpiredPremiumIsDenied ==
    [][\A u \in users :
         Expired(u) =>
           /\ ~isPremiumUser(users, u.id, now)
           /\ \A f \in PREMIUM_FEATURES : ~validatePremiumFeature(users, u.id, f, now)
           /\ updateSocialLinksStatus(users, u.id, now) = 403
           /\ (response' # response /\ response'.arg = u.id) =>
                /\ response'.op = "isPremiumUser" => ~response'.ok
                /\ response'.op = "updateSocialLinks" =>
                      response'.status = 403 /\ users' = users]_vars

C4_Witness ==
    /\ response.op = "updateSocialLinks"
    /\ response.status = 403
    /\ \E u \in users : u.id = response.arg /\ Expired(u)

\* C5: every user with is_premium = true has a premium_expiry later than the
\* current time or a subscriptions row of that user with status 'active'.
C5_PremiumHasExpiryOrActiveSubscription ==
    \A u \in users :
        u.is_premium =>
            \/ (u.premium_expiry # NULL /\ u.premium_expiry > now)
            \/ \E s \in subscriptions : s.user_id = u.id /\ s.status = "active"

\* two finished, validly signed deliveries of one event
Redelivered(r, q) ==
    /\ r # q
    /\ reqs[r].pc = "done" /\ reqs[q].pc = "done"
    /\ reqs[r].event = reqs[q].event
    /\ reqs[r].status # 400 /\ reqs[q].status # 400

\* C1: deliveries handled one after the other: a delivery whose event id has a
\* webhook_events row at its lookup is answered 200 and nothing is dispatched
\* or written for it, and no event id is dispatched more than once.
C1_SeenEventIsNotDispatched ==
    [][/\ \A r \in Deliveries :
            (/\ reqs[r].pc = "lookup"
             /\ EventById(webhook_events, reqs[r].event) # {}
             /\ reqs'[r] # reqs[r]) =>
               /\ reqs'[r].pc = "done" /\ reqs'[r].status = 200
               /\ dispatched' = dispatched
               /\ users' = users /\ subscriptions' = subscriptions
       /\ \A id \in EventIds : dispatched'[id] <= 1]_vars

C1_Witness ==
    \E r, q \in Deliveries :
        /\ Redelivered(r, q)
        /\ StripeEvents[reqs[r].event].type \in HandledTypes
        /\ dispatched[reqs[r].event] = 1

\* C2: of two deliveries of one event id handled concurrently, at most one
\* reaches a handler.
C2_ConcurrentDeliveriesDispatchOnce ==
    \A id \in EventIds : dispatched[id] < 2

SamePair(a, b) == a.user_id = b.user_id /\ a.platform_id = b.platform_id

\* C6 as stated: games_played is wins + losses and win_rate is exactly the
\* quotient wins / (wins + losses), 0 when no game was played.
C6_WinRateIsTheQuotient ==
    \A x \in stats :
        (x.wins >= 0 /\ x.losses >= 0) =>
            /\ x.games_played = x.wins + x.losses
            /\ x.games_played = 0 => x.win_rate = 0
            /\ x.games_played > 0 => x.win_rate * x.games_played = 10000 * x.wins

\* C6 amended: games_played is wins + losses and win_rate is the quotient
\* wins / (wins + losses) rounded to four decimal places (within half a
\* ten-thousandth of it, a half rounding up), 0 when no game was played;
\* wins 7 and losses 3 give 0.7 and 10.
C6_WinRateIsTheRoundedQuotient ==
    \A x \in stats :
        (x.wins >= 0 /\ x.losses >= 0) =>
            /\ x.games_played = x.wins + x.losses
            /\ x.games_played = 0 => x.win_rate = 0
            /\ x.games_played > 0 =>
                 LET d == 2 * (x.win_rate * x.games_played - 10000 * x.wins) IN
                 0 - x.games_played < d /\ d <= x.games_played
            /\ (x.wins = 7 /\ x.losses = 3) => (x.win_rate = 7000 /\ x.games_played = 10)

C6_Witness ==
    \E x \in stats : x.wins = 1 /\ x.losses = 31 /\ x.win_rate = 313 /\ x.games_played = 32

\* C7: whatever inserts, updates and useUpsertStats calls were made, every
\* stored row's win_rate and games_played are the values derived from its
\* wins and losses.
C7_GeneratedColumnsAreDerived ==
    \A x \in stats :
        /\ x.games_played = GamesPlayed(x.wins, x.losses)
        /\ x.win_rate = WinRate(x.wins, x.losses)

C7_Witness ==
    /\ response.op = "useUpsertStats" /\ ~response.ok
    /\ \E x \in stats : /\ PairId(x.user_id, x.platform_id) = response.arg
                        /\ x.wins > 0 /\ x.losses = 0 /\ x.win_rate = 10000

C9_RankIsDeterministic ==
    [][(board.view = Overall /\ board'.view = Overall) => board'.rank = board.rank]_vars

\* C10: there is at most one stats row per (user, platform), and an insert or
\* useUpsertStats for a pair that has a row is rejected and leaves stats as it was.
C10_OneRowPerUserAndPlatform ==
    [][LET insertOps == {"insertStats", "useUpsertStats"}
           taken == \E x \in stats : PairId(x.user_id, x.platform_id) = response'.arg
       IN  /\ \A a, b \in stats' : SamePair(a, b) => a = b
           /\ (response' # response /\ response'.op \in insertOps /\ taken)
                 => (~response'.ok /\ stats' = stats)
           /\ (stats' # stats /\ response'.op \in insertOps) => ~taken]_vars

C10_Witness ==
    /\ response.op = "insertStats" /\ ~response.ok
    /\ \E x \in stats : PairId(x.user_id, x.platform_id) = response.arg

Dispatching == \E r \in Deliveries : reqs[r].pc = "dispatch" /\ reqs'[r].pc # "dispatch"

\* C12: the subscriptions table changes only in a step that processes a
\* Stripe webhook event; every other request leaves it unchanged.
C12_SubscriptionsWrittenOnlyByWebhook ==
    [][subscriptions' # subscriptions => Dispatching]_vars

\* C13: is_premium and premium_expiry of a user change only in a step that
\* processes a Stripe webhook event; every other request leaves them unchanged.
C13_PremiumWrittenOnlyByWebhook ==
    [][(\E u \in users, v \in users' :
           /\ u.id = v.id
           /\ u.is_premium # v.is_premium \/ u.premium_expiry # v.premium_expiry)
       => Dispatching]_vars

\* C14: webhook_events is append-only and keyed by event id: every row
\* stays, with its stripe_event_id and event_type, at every step, and no two
\* rows share a stripe_event_id.
C14_WebhookEventsAppendOnly ==
    [][/\ \A w \in webhook_events : \E v \in webhook_events' :
             v.stripe_event_id = w.stripe_event_id /\ v.event_type = w.event_type
       /\ \A a, b \in webhook_events' : a.stripe_event_id = b.stripe_event_id => a = b]_vars

C14_Witness ==
    /\ response.op = "logWebhookEvent" /\ ~response.ok
    /\ \E w \in webhook_events :
          /\ w.stripe_event_id = response.arg /\ w.processed /\ w.error
    /\ Cardinality(webhook_events) = 2

\* C15: a delivery whose stripe-signature header is missing or fails
\* verification, or that finds no webhook secret, is answered 400 at once and
\* changes nothing: no webhook_events row is inserted, no handler is
\* dispatched, no table is written, and the request does nothing afterwards.
C15_BadSignatureIs400 ==
    [][\A r \in Deliveries :
          /\ (reqs[r].pc = "idle" /\ reqs'[r].pc # "idle" /\ reqs'[r].sig # "valid")
             => /\ reqs'[r].pc = "done" /\ reqs'[r].status = 400
                /\ webhook_events' = webhook_events /\ dispatched' = dispatched
                /\ users' = users /\ subscriptions' = subscriptions
          /\ (reqs[r].pc = "done" /\ reqs[r].sig # "valid") => reqs'[r] = reqs[r]]_vars

C15_Witness ==
    \E r, q \in Deliveries :
        /\ reqs[r].sig = "invalid" /\ reqs[r].pc = "done" /\ reqs[r].status = 400
        /\ reqs[q].sig = "missing" /\ reqs[q].pc = "done" /\ reqs[q].status = 400
        /\ webhook_events = {}

\* C16: handleSubscriptionUpdate answers 200 only when its subscriptions
\* write was applied: after a 200 the table holds the row of the
\* subscription id with the status of the request, which the statuses the
\* CHECK constraint refuses never are.
C16_FailedWriteIsAnError ==
    [][(response' # response /\ response'.op = "handleSubscriptionUpdate"
          /\ response'.status = 200)
       => \E x \in subscriptions' :
             /\ x.stripe_subscription_id = response'.arg
             /\ x.status \in ValidStatuses]_vars

\* C17: isPremiumUser answers isPremium = true exactly when the user id has
\* a row with is_premium true and premium_expiry null or later than the
\* current time (an expiry equal to the current time is not later).
C17_IsPremiumUserTruthTable ==
    [][(response' # response /\ response'.op = "isPremiumUser")
       => (response'.ok <=>
             \E u \in users :
                /\ u.id = response'.arg
                /\ u.is_premium
                /\ u.premium_expiry = NULL \/ u.premium_expiry > now)]_vars

\* C18: there is at most one users row per telegram_id; a row is created
\* with is_premium = false; and a request that ends when the telegram id has a
\* row is answered 200 with the id of that row and creates no row.
C18_OneUserPerTelegramId ==
    [][/\ \A u, v \in users' : u.telegram_id = v.telegram_id => u = v
       /\ \A v \in users' : (\A u \in users : u.id # v.id) => ~v.is_premium
       /\ \A a \in AuthRequests :
            (auths[a].pc = "write" /\ auths'[a].pc = "done"
               /\ UserByTelegramId(users, auths[a].telegram_id) # {})
            => /\ auths'[a].status = 200
               /\ auths'[a].userId = TheRow(UserByTelegramId(users, auths[a].telegram_id)).id
               /\ users' = users]_vars

C20_SubscriptionUpdatePostcondition ==
    [][\A s \in StripeSubscriptions :
          PostHandleSubscriptionUpdate(s) =>
            IF \E u \in users : u.stripe_customer_id = s.customer
            THEN response'.status = 200 =>
                   /\ \E u \in users' :
                         /\ u.stripe_customer_id = s.customer
                         /\ u.is_premium <=> s.status \in {"active", "trialing"}
                         /\ u.premium_expiry = IF u.is_premium THEN s.current_period_end ELSE NULL
                         /\ u.stripe_subscription_id = s.id
                   /\ \E x \in subscriptions' :
                         /\ SubByStripeId(subscriptions', s.id) = {x}
                         /\ x.status = s.status
            ELSE /\ response'.status = 404
                 /\ users' = users /\ subscriptions' = subscriptions]_vars

\* C21: after handleSubscriptionDeleted answers 200 for a subscription of
\* user u, u.is_premium is false and u.premium_expiry is null, the
\* subscriptions row with that stripe_subscription_id (when one exists) has
\* status 'canceled' and a non-null canceled_at, and every other user and
\* every other subscriptions row is unchanged.
C21_SubscriptionDeletedPostcondition ==
    [][\A s \in SubscriberDeletedSubscriptions :
          (PostHandleSubscriptionDeleted(s) /\ response'.status = 200) =>
             /\ \A u \in users' :
                   u.stripe_customer_id = s.customer
                   => (~u.is_premium /\ u.premium_expiry = NULL)
             /\ \A x \in subscriptions' :
                   x.stripe_subscription_id = s.id
                   => (x.status = "canceled" /\ x.canceled_at # NULL)
             /\ {u \in users' : u.stripe_customer_id # s.customer}
                  = {u \in users : u.stripe_customer_id # s.customer}
             /\ {x \in subscriptions' : x.stripe_subscription_id # s.id}
                  = {x \in subscriptions : x.stripe_subscription_id # s.id}
             /\ Cardinality(users') = Cardinality(users)
             /\ Cardinality(subscriptions') = Cardinality(subscriptions)]_vars

\* a deletion answered 200 that canceled one row of a premium user while
\* another row of the same customer and a row of another customer stay active
C21_Witness ==
    /\ response.op = "handleSubscriptionDeleted" /\ response.status = 200
    /\ \E x, y, z \in subscriptions :
          /\ x.stripe_subscription_id = response.arg
          /\ x.status = "canceled" /\ x.canceled_at # NULL
          /\ y.stripe_customer_id = x.stripe_customer_id /\ y.status = "active"
          /\ z.stripe_customer_id # x.stripe_customer_id /\ z.status = "active"
    /\ \E u, v \in users : ~u.is_premium /\ u.stripe_subscription_id # NULL /\ v.is_premium

\* C22: handlePaymentFailed never revokes premium: for every invoice, with or
\* without a subscription and whether or not the customer is known, it
\* leaves the users table and the subscriptions table unchanged.
C22_PaymentFailedWritesNothing ==
    [][\A i \in SubscriberInvoices :
          PostHandlePaymentFailed(i) => (users' = users /\ subscriptions' = subscriptions)]_vars

\* a failed payment of a subscription was answered 200 for a premium user
C22_Witness ==
    /\ response.op = "handlePaymentFailed" /\ response.status = 200
    /\ \E u \in users : u.stripe_customer_id = response.arg /\ u.is_premium
    /\ \E x \in subscriptions : x.stripe_customer_id = response.arg /\ x.status = "active"

\* C23: what a read of leaderboard_overall lists is exactly the stats rows
\* whose verification_status is 'verified' and whose games_played > 0: a
\* 'pending' or 'disputed' row is never listed, and a row changed from
\* 'verified' to 'disputed' is no longer listed.
C23_ListedExactlyWhileVerified ==
    board.view = Overall =>
        DOMAIN board.rank =
            {x.id : x \in {y \in stats : y.verification_status = "verified" /\ y.games_played > 0}}

\* a read after an update that lists one row while a disputed row with games
\* played is in the table and is not listed
C23_Witness ==
    /\ board.view = Overall
    /\ DOMAIN board.rank # {}
    /\ \E x \in stats :
          /\ x.verification_status = "disputed" /\ x.games_played > 0
          /\ x.id \notin DOMAIN board.rank
    /\ response.op = "updateStats" /\ response.status = 200

\* C24: a webhook_events row turns processed = true only as the last step of
\* a delivery whose dispatched handler answered ok; and a delivery whose
\* dispatch failed answers 500 and leaves the row of its event with
\* processed = false and the error recorded.
C24_ProcessedOnlyAfterSuccess ==
    [][/\ \A w \in webhook_events' :
             (w.processed /\ ~\E v \in webhook_events :
                                v.stripe_event_id = w.stripe_event_id /\ v.processed)
             => \E r \in Deliveries :
                   /\ reqs[r].pc = "mark" /\ reqs[r].event = w.stripe_event_id
                   /\ reqs'[r].pc = "done" /\ reqs'[r].status = 200
       /\ \A r \in Deliveries :
             /\ (reqs[r].pc = "dispatch" /\ reqs'[r].pc = "mark")
                => dispatch(users, subscriptions, StripeEvents[reqs[r].event], now).status = 200
             /\ (reqs[r].pc = "dispatch" /\ reqs'[r].pc # "dispatch"
                   /\ dispatch(users, subscriptions, StripeEvents[reqs[r].event], now).status # 200)
                => reqs'[r].pc = "error"
             /\ (reqs[r].pc = "error" /\ reqs'[r].pc # "error")
                => /\ reqs'[r].status = 500
                   /\ \E w \in webhook_events' :
                         /\ w.stripe_event_id = reqs[r].event
                         /\ ~w.processed /\ w.error]_vars

\* C25: for all wins >= 0 and losses >= 0, the win_rate useUpsertStats
\* computes on the client equals the value the database derives from the
\* same wins and losses, the cases wins > 0 with losses = 0 and wins = 0 with
\* losses > 0 included.
C25_ClientWinRateIsTheDerivedOne ==
    [][\A r \in ClientRoles, u \in UserIds, w, l \in WinRateCounts \cap Nat :
          UseUpsertStats(r, u, 1, w, l) => clientWinRate(w, l) = WinRate(w, l)]_vars

\* C26: 'canceled' is terminal: when the subscriptions row of a subscription
\* is 'canceled' (handleSubscriptionDeleted has been processed for it), the
\* processing of a later customer.subscription.updated or
\* invoice.payment_succeeded for the same subscription leaves the row
\* 'canceled' and does not set the is_premium of its user to true.
C26_CanceledIsTerminal ==
    [][\A x \in subscriptions :
          (/\ x.status = "canceled"
           /\ \/ \E s \in StripeSubscriptions :
                    s.id = x.stripe_subscription_id /\ PostHandleSubscriptionUpdate(s)
              \/ \E i \in StripeInvoices :
                    i.subscription = x.stripe_subscription_id /\ PostHandlePaymentSucceeded(i))
          => /\ \E y \in subscriptions' :
                   y.stripe_subscription_id = x.stripe_subscription_id /\ y.status = "canceled"
             /\ \A u \in users, v \in users' :
                   (u.id = x.user_id /\ v.id = u.id /\ v.is_premium) => u.is_premium]_vars

\* C27: when a delivery of a validly signed event was answered 500 and
\* Stripe has delivered the event again (it does so until it is answered
\* 200), and the handler becomes able to succeed, the webhook_events row of
\* the event eventually has processed = true.
C27_FailedEventIsEventuallyProcessed ==
    \A e \in RetryEvents :
        (\E q, r \in Deliveries :
            /\ q < r
            /\ reqs[q].event = e /\ reqs[q].pc = "done" /\ reqs[q].status = 500
            /\ reqs[r].event = e /\ reqs[r].pc # "idle")
        ~> (\E w \in webhook_events : w.stripe_event_id = e /\ w.processed)

\* C28: all copies of the premium check agree: for every users row and
\* every current time, premium_expiry equal to the current time included,
\* isPremiumUser, checkPremiumStatus, the inline checks of updateSocialLinks
\* and getPremiumStatus, and the hook usePremium give the same boolean.
C28_PremiumChecksAgree ==
    \A u \in users :
        LET a == isPremiumUser(users, u.id, now) IN
        /\ checkPremiumStatus(users, u.id, now) = a
        /\ socialLinksIsPremium(u, now) = a
        /\ getPremiumStatus(users, u.id, now) = a
        /\ usePremium(users, u.id, now) = a

\* C29: for any interleaving of createCheckoutSession calls, no more Stripe
\* customers are created than there are users, and a stripe_customer_id that
\* is set is never replaced by a different customer id.
C29_OneCustomerPerUser ==
    [][/\ stripeCustomers' <= Cardinality(users')
       /\ \A u \in users, v \in users' :
             (u.id = v.id /\ u.stripe_customer_id # NULL)
             => v.stripe_customer_id = u.stripe_customer_id]_vars

\* C30: for any interleaving of two executions of handleSubscriptionUpdate
\* and/or handleSubscriptionDeleted for one subscription, once both have
\* finished the user's is_premium is true exactly when the status of the
\* subscriptions row is 'active' or 'trialing'.
C30_PremiumAgreesWithStatus ==
    (\A a \in AuthRequests : auths[a].pc \in {"idle", "done"})
    => \A x \in subscriptions, u \in users :
          u.id = x.user_id => (u.is_premium <=> x.status \in {"active", "trialing"})

====
